---- MODULE Spec2Model ----
(***************************************************************************)
(* A model of the ray tracer's driver (main), its recursive radiance       *)
(* estimator (ray_color) and the analytic ray/sphere intersection          *)
(* (sphere::hit).                                                          *)
(*                                                                         *)
(* Numbers.  A C++ double is modelled as a fixed-point number counted in   *)
(* thousandths (Milli): 0.001 is 1, 0.5 is 500, 1.0 is 1000.  Positions,   *)
(* radii, ray parameters t and colour channels are in thousandths; ray     *)
(* directions are small whole vectors.  Products of two such numbers are   *)
(* rescaled, and sqrt and / round toward zero onto that grid, the way the  *)
(* double operations round onto theirs.                                    *)
(***************************************************************************)
EXTENDS Integers, Sequences, FiniteSets, TLC

VARIABLES
    \* --- main (src/src/Main.cpp:81-151)
    pc,                \* where main stands
    write_ppm,         \* Main.cpp:83
    aspect_ratio,      \* Main.cpp:87, a fraction [num, den]
    image_width,       \* Main.cpp:88
    image_height,      \* Main.cpp:89
    samples_per_pixel, \* Main.cpp:90
    max_depth,         \* Main.cpp:91
    j, i, s,           \* the three loop counters, Main.cpp:124,126,130
    arg,               \* the sample under way: its u, v (Main.cpp:131-132),
                       \* its ray r (Main.cpp:133) and the depth handed to
                       \* ray_color (Main.cpp:135)
    pixel_color,       \* the accumulator, Main.cpp:127
    outfile,           \* what was written to the file, in order
    cout,              \* what was written to standard output, in order
    cerr,              \* the scanline numbers reported on standard error
    \* --- ray_color (src/src/Main.cpp:13-31)
    stack,             \* the activation records of ray_color, innermost last
    ret,               \* the value the last finished activation returned
    \* --- history kept beside the program state
    samples,           \* the ray_color results added to pixel_color so far
    queries,           \* the world.hit calls of the ray_color call under way
    \* --- one call of sphere::hit (src/src/sphere.h:19-49)
    h_pc, h_sphere, h_ray, h_tmin, h_tmax, h_rec, h_rec0, h_ret

vars == <<pc, write_ppm, aspect_ratio, image_width, image_height,
          samples_per_pixel, max_depth, j, i, s, arg, pixel_color,
          outfile, cout, cerr, stack, ret, samples, queries,
          h_pc, h_sphere, h_ray, h_tmin, h_tmax, h_rec, h_rec0, h_ret>>

mainVars == <<pc, write_ppm, aspect_ratio, image_width, image_height,
              samples_per_pixel, max_depth, j, i, s, arg, pixel_color,
              outfile, cout, cerr, samples>>

colorVars == <<stack, ret, queries>>

hitVars == <<h_pc, h_sphere, h_ray, h_tmin, h_tmax, h_rec, h_rec0, h_ret>>

----------------------------------------------------------------------------
(* Numbers *)

\* One unit of a double, counted in thousandths.
Milli == 1000

\* The shadow-acne epsilon 0.001 passed as tmin.
TMin == 1

\* The tmax of ray_color's query: larger than every ray parameter.
Infinity == 1000000000

\* The maxval of the PPM header.
MaxVal == 255

\* A default-constructed material pointer.
NullMat == 0

Max(a, b) == IF a >= b THEN a ELSE b

Abs(x) == IF x < 0 THEN -x ELSE x

\* x / y, rounded toward zero.
Quot(x, y) ==
    IF (x >= 0) = (y > 0) THEN Abs(x) \div Abs(y) ELSE -(Abs(x) \div Abs(y))

\* The largest whole number in [b[2], b[3]) whose square is at most b[1],
\* found by bisection.
SqrtSearch[b \in Nat \X Nat \X Nat] ==
    IF b[3] - b[2] <= 1 THEN b[2]
    ELSE LET mid == (b[2] + b[3]) \div 2
         IN IF mid * mid <= b[1] THEN SqrtSearch[<<b[1], mid, b[3]>>]
            ELSE SqrtSearch[<<b[1], b[2], mid>>]

\* sqrt(n), rounded down to a whole number (n < 2^30).
Sqrt(n) == SqrtSearch[<<n, 0, 32768>>]

----------------------------------------------------------------------------
(* vec3 and ray *)

Dot(u, v) == u[1] * v[1] + u[2] * v[2] + u[3] * v[3]

LengthSquared(v) == Dot(v, v)

VAdd(u, v) == <<u[1] + v[1], u[2] + v[2], u[3] + v[3]>>

VSub(u, v) == <<u[1] - v[1], u[2] - v[2], u[3] - v[3]>>

VNeg(v) == <<-v[1], -v[2], -v[3]>>

VScale(t, v) == <<t * v[1], t * v[2], t * v[3]>>

VDiv(v, d) == <<Quot(v[1], d), Quot(v[2], d), Quot(v[3], d)>>

\* ray::at: orig + t * dir (t in thousandths, dir whole).
At(r, t) == VAdd(r.orig, VScale(t, r.dir))

----------------------------------------------------------------------------
(* hit_record *)

\* A record no intersection has written to.  `written` names the members
\* assigned since construction; the doubles outside it are indeterminate.
FreshRecord ==
    [t |-> 0, p |-> <<0, 0, 0>>, normal |-> <<0, 0, 0>>,
     front_face |-> FALSE, mat_ptr |-> NullMat, written |-> {}]

\* hit_record::set_face_normal
SetFaceNormal(rec, r, outward_normal) ==
    LET front == Dot(r.dir, outward_normal) < 0
    IN [rec EXCEPT !.front_face = front,
                   !.normal = IF front THEN outward_normal
                              ELSE VNeg(outward_normal),
                   !.written = @ \cup {"front_face", "normal"}]

----------------------------------------------------------------------------
(* sphere::hit *)

\* The body of either accepting branch: sphere.h:32-35 and 41-44.
HitAccept(sph, r, temp, rec) ==
    LET rec1 == [rec EXCEPT !.t = temp, !.written = @ \cup {"t"}]
        rec2 == [rec1 EXCEPT !.p = At(r, rec1.t), !.written = @ \cup {"p"}]
        outward_normal ==
            VDiv(VScale(Milli, VSub(rec2.p, sph.center)), sph.radius)
    IN SetFaceNormal(rec2, r, outward_normal)

HalfB(sph, r) == Dot(VSub(r.orig, sph.center), r.dir)

Discriminant(sph, r) ==
    LET oc == VSub(r.orig, sph.center)
        a == LengthSquared(r.dir)
        half_b == Dot(oc, r.dir)
        c == LengthSquared(oc) - sph.radius * sph.radius
    IN half_b * half_b - a * c

\* The interval test as a bug would have it: the bounds included.
InIntervalClosed(temp, tmin, tmax) == temp <= tmax /\ temp >= tmin

\* temp < tmax && temp > tmin
InInterval(temp, tmin, tmax) == temp < tmax /\ temp > tmin

\* sphere::hit as a bug would have it: the farther root is tried first.
SphereHitFarFirst(sph, r, tmin, tmax, rec) ==
    LET a == LengthSquared(r.dir)
        half_b == HalfB(sph, r)
        discriminant == Discriminant(sph, r)
    IN IF discriminant > 0
       THEN LET root == Sqrt(discriminant)
                temp1 == Quot(-half_b + root, a)
                temp2 == Quot(-half_b - root, a)
            IN IF InInterval(temp1, tmin, tmax)
               THEN [hit |-> TRUE, rec |-> HitAccept(sph, r, temp1, rec)]
               ELSE IF InInterval(temp2, tmin, tmax)
               THEN [hit |-> TRUE, rec |-> HitAccept(sph, r, temp2, rec)]
               ELSE [hit |-> FALSE, rec |-> rec]
       ELSE [hit |-> FALSE, rec |-> rec]

\* sphere::hit(r, tmin, tmax, rec): the returned bool and the record after.
SphereHit(sph, r, tmin, tmax, rec) ==
    LET a == LengthSquared(r.dir)
        half_b == HalfB(sph, r)
        discriminant == Discriminant(sph, r)
    IN IF discriminant > 0
       THEN LET root == Sqrt(discriminant)
                temp1 == Quot(-half_b - root, a)
                temp2 == Quot(-half_b + root, a)
            IN IF InInterval(temp1, tmin, tmax)
               THEN [hit |-> TRUE, rec |-> HitAccept(sph, r, temp1, rec)]
               ELSE IF InInterval(temp2, tmin, tmax)
               THEN [hit |-> TRUE, rec |-> HitAccept(sph, r, temp2, rec)]
               ELSE [hit |-> FALSE, rec |-> rec]
       ELSE [hit |-> FALSE, rec |-> rec]

----------------------------------------------------------------------------
(* The scene *)

\* The three unit spheres main adds to the world (Main.cpp:106-113), in
\* thousandths.  sphere.h's sphere has a centre and a radius and nothing else.
World ==
    <<[center |-> <<0, 0, -1000>>, radius |-> 500],
      [center |-> <<1000, 0, -1000>>, radius |-> 500],
      [center |-> <<-1000, 0, -1000>>, radius |-> 500]>>

RECURSIVE ListHitFrom(_, _, _, _, _, _, _, _)
ListHitFrom(objects, k, r, tmin, closest_so_far, hit_anything, temp_rec, rec) ==
    IF k > Len(objects) THEN [hit |-> hit_anything, rec |-> rec]
    ELSE LET res == SphereHit(objects[k], r, tmin, closest_so_far, temp_rec)
         IN IF res.hit
            THEN ListHitFrom(objects, k + 1, r, tmin, res.rec.t, TRUE,
                             res.rec, res.rec)
            ELSE ListHitFrom(objects, k + 1, r, tmin, closest_so_far,
                             hit_anything, res.rec, rec)

\* hittable_list::hit: the closest hit of the list in (tmin, tmax).
HittableListHit(objects, r, tmin, tmax, rec) ==
    ListHitFrom(objects, 1, r, tmin, tmax, FALSE, FreshRecord, rec)

----------------------------------------------------------------------------
(* Colours *)

Black == <<0, 0, 0>>

CAdd(a, b) == <<a[1] + b[1], a[2] + b[2], a[3] + b[3]>>

\* The component-wise product of two colours.
CMul(a, b) ==
    <<Quot(a[1] * b[1], Milli), Quot(a[2] * b[2], Milli),
      Quot(a[3] * b[3], Milli)>>

\* Main.cpp:28-30: the white-to-sky-blue gradient along the ray's direction.
Background(r) ==
    LET len == Sqrt(LengthSquared(r.dir) * Milli * Milli)
        unit_y == Quot(r.dir[2] * Milli * Milli, len)
        t == Quot(unit_y + Milli, 2)
        Blend(ch) == Quot((Milli - t) * Milli, Milli) + Quot(t * ch, Milli)
    IN <<Blend(500), Blend(700), Blend(1000)>>

----------------------------------------------------------------------------
(* What the model draws at random *)

\* The widest image of the model.
MaxWidth == 3

\* The largest samples_per_pixel of the model.
MaxSamples == 2

\* The largest max_depth of the model.
MaxDepth == 2

AspectRatios ==
    {[num |-> 16, den |-> 9], [num |-> 1, den |-> 1], [num |-> 2, den |-> 1]}

\* random_double(): a value of [0, 1), in thousandths.
RandomDoubles == {0, 500}

\* camera::get_ray(u, v) samples the lens at random: any of these rays,
\* which leave lookfrom (3, 3, 2) toward the scene or past it.
CameraRays ==
    {[orig |-> <<3000, 3000, 2000>>, dir |-> <<-1, -1, -1>>],
     [orig |-> <<3000, 3000, 2000>>, dir |-> <<-1, 1, 0>>]}

Attenuations == {<<800, 600, 200>>}

ScatterDirections == {<<1, 1, 1>>, <<1, 0, 0>>}

\* material::scatter(r, rec, attenuation, scattered): the pairs
\* (attenuation, scattered) a successful scatter may hand back.
ScatterResults(r, rec) ==
    [attenuation : Attenuations,
     scattered : [orig : {rec.p}, dir : ScatterDirections]]

----------------------------------------------------------------------------
(* ray_color *)

Top == stack[Len(stack)]

Pop == SubSeq(stack, 1, Len(stack) - 1)

Frame(r, depth) ==
    [r |-> r, depth |-> depth, stage |-> "entry", rec |-> FreshRecord,
     attenuation |-> Black]

\* Main.cpp:16 as a bug would have it: depth 0 still traces.
DepthExhaustedOffByOne(depth) == depth < 0

\* Main.cpp:16: depth <= 0
DepthExhausted(depth) == depth <= 0

\* Main.cpp:24 as a bug would have it: the attenuation is dropped.
ScatteredColorUnattenuated(attenuation, inner) == inner

\* Main.cpp:24: attenuation * ray_color(scattered, world, depth - 1)
ScatteredColor(attenuation, inner) == CMul(attenuation, inner)

\* Main.cpp:20: world.hit(r, 0.001, infinity, rec)
WorldQuery(r, rec) ==
    LET res == HittableListHit(World, r, TMin, Infinity, rec)
    IN [r |-> r, tmin |-> TMin, tmax |-> Infinity, hit |-> res.hit,
        rec |-> res.rec]

Logged(q) ==
    [r |-> q.r, tmin |-> q.tmin, tmax |-> q.tmax, hit |-> q.hit,
     scatter |-> "none", attenuation |-> Black, scattered |-> q.r]

\* Main.cpp:16-17: the depth is used up; black, and the world is not asked.
RC_DepthExhausted ==
    /\ stack # <<>>
    /\ Top.stage = "entry"
    /\ DepthExhausted(Top.depth)
    /\ ret' = Black
    /\ stack' = Pop
    /\ UNCHANGED <<queries, mainVars, hitVars>>

\* Main.cpp:20, 28-30: nothing is hit; the background gradient.
RC_Miss ==
    /\ stack # <<>>
    /\ Top.stage = "entry"
    /\ ~DepthExhausted(Top.depth)
    /\ \E q \in {WorldQuery(Top.r, Top.rec)} :
          /\ ~q.hit
          /\ queries' = Append(queries, Logged(q))
          /\ ret' = Background(Top.r)
    /\ stack' = Pop
    /\ UNCHANGED <<mainVars, hitVars>>

\* Main.cpp:20: something is hit; rec holds what the hit wrote.
RC_Hit ==
    /\ stack # <<>>
    /\ Top.stage = "entry"
    /\ ~DepthExhausted(Top.depth)
    /\ \E q \in {WorldQuery(Top.r, Top.rec)} :
          /\ q.hit
          /\ queries' = Append(queries, Logged(q))
          /\ stack' = [stack EXCEPT ![Len(stack)].stage = "hit",
                                    ![Len(stack)].rec = q.rec]
    /\ UNCHANGED <<ret, mainVars, hitVars>>

\* Main.cpp:23-24: scatter returns true; ray_color calls itself on the
\* scattered ray with depth - 1.
RC_Scatter ==
    /\ stack # <<>>
    /\ Top.stage = "hit"
    /\ \E out \in ScatterResults(Top.r, Top.rec) :
         /\ stack' = Append([stack EXCEPT
                                ![Len(stack)].stage = "wait",
                                ![Len(stack)].attenuation = out.attenuation],
                            Frame(out.scattered, Top.depth - 1))
         /\ queries' = [queries EXCEPT
                           ![Len(queries)].scatter = "scattered",
                           ![Len(queries)].attenuation = out.attenuation,
                           ![Len(queries)].scattered = out.scattered]
    /\ UNCHANGED <<ret, mainVars, hitVars>>

\* Main.cpp:23, 25: scatter returns false; black.
RC_Absorb ==
    /\ stack # <<>>
    /\ Top.stage = "hit"
    /\ queries' = [queries EXCEPT ![Len(queries)].scatter = "absorbed"]
    /\ ret' = Black
    /\ stack' = Pop
    /\ UNCHANGED <<mainVars, hitVars>>

\* Main.cpp:23: rec.mat_ptr->scatter through a pointer no hit has set is
\* undefined: besides behaving like some material (RC_Scatter, RC_Absorb)
\* the call may end the process.
RC_Fault ==
    /\ stack # <<>>
    /\ Top.stage = "hit"
    /\ Top.rec.mat_ptr = NullMat
    /\ pc' = "fault"
    /\ stack' = <<>>
    /\ UNCHANGED <<write_ppm, aspect_ratio, image_width, image_height,
                   samples_per_pixel, max_depth, j, i, s, arg, pixel_color,
                   outfile, cout, cerr, samples, ret, queries, hitVars>>

\* Main.cpp:24: the inner call has returned; multiply and return.
RC_Return ==
    /\ stack # <<>>
    /\ Top.stage = "wait"
    /\ ret' = ScatteredColor(Top.attenuation, ret)
    /\ stack' = Pop
    /\ UNCHANGED <<queries, mainVars, hitVars>>

RayColorStep ==
    \/ RC_DepthExhausted
    \/ RC_Miss
    \/ RC_Hit
    \/ RC_Scatter
    \/ RC_Absorb
    \/ RC_Fault
    \/ RC_Return

----------------------------------------------------------------------------
(* main *)

\* Main.cpp:89 as a bug would have it: the quotient rounded to nearest.
ImageHeightRounded(width, ar) ==
    (2 * width * ar.den + ar.num) \div (2 * ar.num)

\* Main.cpp:89: static_cast<int>(image_width / aspect_ratio)
ImageHeight(width, ar) == Quot(width * ar.den, ar.num)

\* Main.cpp:124 as a bug would have it: the rows are walked bottom-up from 0.
RowFirstBottom(height) == 0

\* Main.cpp:124: int j = image_height-1
RowFirst(height) == height - 1

\* Main.cpp:126 as a bug would have it: one column too many.
ColumnInRangeInclusive(col, width) == col <= width

\* Main.cpp:126: i < image_width
ColumnInRange(col, width) == col < width

\* Main.cpp:127 as a bug would have it: the accumulator outlives the pixel.
PixelStartKept(acc) == acc

\* Main.cpp:127: color pixel_color(0, 0, 0)
PixelStart(acc) == Black

\* Main.cpp:131-132: double(k + random_double()) / (extent - 1), kept as a
\* fraction; a denominator of 0 stands for the division by zero.
ScreenCoordinate(k, xi, extent) ==
    [num |-> k * Milli + xi, den |-> (extent - 1) * Milli]

Header(width, height) ==
    [kind |-> "header", magic |-> "P3", width |-> width, height |-> height,
     maxval |-> MaxVal]

\* One write_color call: the pixel it is for and the divisor it is given.
Pixel(row, col, divisor) ==
    [kind |-> "pixel", row |-> row, col |-> col, divisor |-> divisor]

\* Main.cpp:95-101 and 138-141: the file when write_ppm, else standard output.
Emit(x) ==
    IF write_ppm
    THEN outfile' = Append(outfile, x) /\ cout' = cout
    ELSE cout' = Append(cout, x) /\ outfile' = outfile

\* No sample is under way.
NoArg ==
    [u |-> [num |-> 0, den |-> 1], v |-> [num |-> 0, den |-> 1],
     r |-> [orig |-> <<0, 0, 0>>, dir |-> <<0, 0, -1>>], depth |-> 0]

config == <<write_ppm, aspect_ratio, image_width, image_height,
            samples_per_pixel, max_depth>>

\* Main.cpp:94-124: the header is written, the scene and the camera built,
\* and the row loop entered.
MainHeader ==
    /\ pc = "header"
    /\ Emit(Header(image_width, image_height))
    /\ j' = RowFirst(image_height)
    /\ pc' = "row"
    /\ UNCHANGED <<config, i, s, arg, pixel_color, cerr, samples, colorVars,
                   hitVars>>

\* Main.cpp:124-126: one more scanline.
RowBegin ==
    /\ pc = "row"
    /\ j >= 0
    /\ cerr' = Append(cerr, j)
    /\ i' = 0
    /\ pc' = "col"
    /\ UNCHANGED <<config, j, s, arg, pixel_color, outfile, cout, samples,
                   colorVars, hitVars>>

\* Main.cpp:124, 144-150: no scanline is left.
RowsDone ==
    /\ pc = "row"
    /\ ~(j >= 0)
    /\ pc' = "done"
    /\ UNCHANGED <<config, j, i, s, arg, pixel_color, outfile, cout, cerr,
                   samples, colorVars, hitVars>>

\* Main.cpp:126-130: one more pixel of the scanline.
PixelBegin ==
    /\ pc = "col"
    /\ ColumnInRange(i, image_width)
    /\ pixel_color' = PixelStart(pixel_color)
    /\ samples' = <<>>
    /\ s' = 0
    /\ pc' = "sample"
    /\ UNCHANGED <<config, j, i, arg, outfile, cout, cerr, colorVars, hitVars>>

\* Main.cpp:124, 126: the scanline is finished.
RowEnd ==
    /\ pc = "col"
    /\ ~ColumnInRange(i, image_width)
    /\ j' = j - 1
    /\ pc' = "row"
    /\ UNCHANGED <<config, i, s, arg, pixel_color, outfile, cout, cerr,
                   samples, colorVars, hitVars>>

\* Main.cpp:130-135: one more sample; ray_color is entered.
SampleBegin ==
    /\ pc = "sample"
    /\ s < samples_per_pixel
    /\ \E xi1 \in RandomDoubles, xi2 \in RandomDoubles, r \in CameraRays :
         /\ arg' = [u |-> ScreenCoordinate(i, xi1, image_width),
                    v |-> ScreenCoordinate(j, xi2, image_height),
                    r |-> r, depth |-> max_depth]
         /\ stack' = <<Frame(r, max_depth)>>
    /\ queries' = <<>>
    /\ pc' = "ray_color"
    /\ UNCHANGED <<config, j, i, s, pixel_color, outfile, cout, cerr, samples,
                   ret, hitVars>>

\* Main.cpp:135-136: ray_color has returned; pixel_color += its result, and
\* the locals of the loop body end.
SampleAdd ==
    /\ pc = "ray_color"
    /\ stack = <<>>
    /\ pixel_color' = CAdd(pixel_color, ret)
    /\ samples' = Append(samples, [col |-> arg.u.num \div Milli,
                                   row |-> arg.v.num \div Milli,
                                   depth |-> arg.depth,
                                   color |-> ret])
    /\ s' = s + 1
    /\ arg' = NoArg /\ ret' = Black /\ queries' = <<>>
    /\ pc' = "sample"
    /\ UNCHANGED <<config, j, i, outfile, cout, cerr, stack, hitVars>>

\* Main.cpp:130, 138-141: the samples are in; write_color, next column.
PixelWrite ==
    /\ pc = "sample"
    /\ ~(s < samples_per_pixel)
    /\ Emit(Pixel(j, i, samples_per_pixel))
    /\ i' = i + 1
    /\ pc' = "col"
    /\ UNCHANGED <<config, j, s, arg, pixel_color, cerr, samples, colorVars,
                   hitVars>>

----------------------------------------------------------------------------
(* One call of sphere::hit *)

HitCall ==
    /\ h_pc = "call"
    /\ LET res == SphereHit(h_sphere, h_ray, h_tmin, h_tmax, h_rec)
       IN h_ret' = res.hit /\ h_rec' = res.rec
    /\ h_pc' = "returned"
    /\ UNCHANGED <<h_sphere, h_ray, h_tmin, h_tmax, h_rec0, mainVars,
                   colorVars>>

----------------------------------------------------------------------------
(* Specifications *)

HitIdle ==
    /\ h_pc = "idle"
    /\ h_sphere = World[1]
    /\ h_ray = [orig |-> <<0, 0, 0>>, dir |-> <<0, 0, -1>>]
    /\ h_tmin = TMin
    /\ h_tmax = Infinity
    /\ h_rec = FreshRecord
    /\ h_rec0 = FreshRecord
    /\ h_ret = FALSE

ColorIdle ==
    /\ stack = <<>>
    /\ ret = Black
    /\ queries = <<>>

\* main after its declarations (Main.cpp:83-91), for every configuration
\* of the model.
Init ==
    /\ pc = "header"
    /\ write_ppm \in BOOLEAN
    /\ aspect_ratio \in AspectRatios
    /\ image_width \in 1..MaxWidth
    /\ image_height = ImageHeight(image_width, aspect_ratio)
    /\ samples_per_pixel \in 1..MaxSamples
    /\ max_depth \in 0..MaxDepth
    /\ j = 0 /\ i = 0 /\ s = 0
    /\ arg = NoArg
    /\ pixel_color = Black
    /\ outfile = <<>> /\ cout = <<>> /\ cerr = <<>>
    /\ samples = <<>>
    /\ ColorIdle
    /\ HitIdle

Next ==
    \/ MainHeader
    \/ RowBegin
    \/ RowsDone
    \/ PixelBegin
    \/ RowEnd
    \/ SampleBegin
    \/ SampleAdd
    \/ PixelWrite
    \/ RC_DepthExhausted
    \/ RC_Miss
    \/ RC_Hit
    \/ RC_Scatter
    \/ RC_Absorb
    \/ RC_Fault
    \/ RC_Return

Spec == Init /\ [][Next]_vars

MainIdle ==
    /\ write_ppm = TRUE
    /\ aspect_ratio = [num |-> 16, den |-> 9]
    /\ image_width = 1
    /\ image_height = 0
    /\ samples_per_pixel = 1
    /\ max_depth = 0
    /\ j = 0 /\ i = 0 /\ s = 0
    /\ pixel_color = Black
    /\ outfile = <<>> /\ cout = <<>> /\ cerr = <<>>
    /\ samples = <<>>

RayOrigins == {<<3000, 3000, 2000>>, <<0, 0, -500>>, <<289, 289, -711>>}

RayDirections ==
    {<<-1, -1, -1>>, <<-2, -3, -3>>, <<-1, 1, 0>>, <<0, 0, -1>>, <<1, 0, 0>>}

\* One call ray_color(r, world, depth), for every ray and depth of the model.
InitColor ==
    /\ pc = "call"
    /\ MainIdle
    /\ \E r \in [orig : RayOrigins, dir : RayDirections],
          depth \in -1..(MaxDepth + 1) :
         /\ arg = [NoArg EXCEPT !.r = r, !.depth = depth]
         /\ stack = <<Frame(r, depth)>>
    /\ ret = Black
    /\ queries = <<>>
    /\ HitIdle

SpecColor == InitColor /\ [][RayColorStep]_vars

HitSpheres ==
    {World[1], World[2], [center |-> <<0, 0, -1000>>, radius |-> -450]}

HitRays ==
    [orig : {<<0, 0, 0>>, <<0, 0, -500>>, <<0, 0, -1000>>},
     dir : {<<0, 0, -1>>, <<0, 0, 1>>, <<1, 0, -1>>, <<0, 1, 0>>,
            <<0, 0, -2>>, <<0, 0, 0>>}]

\* A record an earlier hit has filled.
EarlierRecord ==
    [t |-> 250, p |-> <<0, 250, 0>>, normal |-> <<0, 1000, 0>>,
     front_face |-> TRUE, mat_ptr |-> NullMat,
     written |-> {"t", "p", "normal", "front_face"}]

\* One call sphere::hit(r, tmin, tmax, rec), for every input of the model.
InitHit ==
    /\ pc = "idle"
    /\ MainIdle
    /\ arg = NoArg
    /\ ColorIdle
    /\ h_pc = "call"
    /\ h_sphere \in HitSpheres
    /\ h_ray \in HitRays
    /\ h_tmin \in {0, TMin}
    /\ h_tmax \in {500, 1000, 1500, Infinity}
    /\ h_rec0 \in {FreshRecord, EarlierRecord}
    /\ h_rec = h_rec0
    /\ h_ret = FALSE

SpecHit == InitHit /\ [][HitCall]_vars

----------------------------------------------------------------------------
(* Claims about sphere::hit, under SpecHit *)

\* C6: whenever sphere::hit(r, tmin, tmax, rec) returns true, the recorded
\* rec.t lies strictly between tmin and tmax (equal to neither), and rec.p
\* is the point of the ray at that same rec.t.
C6_HitStrictlyInside ==
    (h_pc = "returned" /\ h_ret) =>
        /\ h_tmin < h_rec.t
        /\ h_rec.t < h_tmax
        /\ h_rec.p = <<h_ray.orig[1] + h_rec.t * h_ray.dir[1],
                       h_ray.orig[2] + h_rec.t * h_ray.dir[2],
                       h_ray.orig[3] + h_rec.t * h_ray.dir[3]>>

\* A hit under a finite tmax, one step below it or further.
C6_Witness ==
    /\ h_pc = "returned"
    /\ h_ret
    /\ h_tmax = 1500
    /\ h_tmin = TMin
    /\ h_rec.t = 1000

----------------------------------------------------------------------------
(* Claims about ray_color *)

AllMembers == {"t", "p", "normal", "front_face", "mat_ptr"}

\* C3: after a successful hit the record handed back has all its members
\* set by that intersection (t, p, normal, front_face and the material), so
\* ray_color never calls scatter through a material reference no hit set.
C3_RecordPopulated ==
    /\ (h_pc = "returned" /\ h_ret) => AllMembers \subseteq h_rec.written
    /\ \A k \in 1..Len(stack) :
         stack[k].stage = "hit" =>
             /\ AllMembers \subseteq stack[k].rec.written
             /\ stack[k].rec.mat_ptr # NullMat

\* What is left of a ray_color call: 0 once it has ended, and smaller after
\* every step.
Remaining ==
    IF stack = <<>> THEN 0
    ELSE IF stack[Len(stack)].stage = "wait" THEN Len(stack)
    ELSE 3 * Max(stack[Len(stack)].depth, 0) + Len(stack) + 1
         + (IF stack[Len(stack)].stage = "entry" THEN 1 ELSE 0)

\* C4: ray_color(r, world, depth) terminates for every depth and every
\* outcome of hit and scatter (every step of it lowers Remaining, a natural
\* number); its calls never nest deeper than max(depth, 0) below the first,
\* and the world is asked at most max(depth, 0) times.
C4_BoundedRecursion ==
    [][/\ Remaining' < Remaining
       /\ Len(stack') <= 1 + Max(arg.depth, 0)
       /\ Len(queries') <= Max(arg.depth, 0)]_vars

\* The bound is met: depth 3, three world queries, the call has returned.
C4_Witness ==
    /\ pc = "call"
    /\ stack = <<>>
    /\ arg.depth >= 2
    /\ Len(queries) = arg.depth

Malformed == [color |-> <<-1, -1, -1>>, used |-> -1]

\* The colour the claim gives a call whose world queries and scatter
\* outcomes were qs[k], qs[k+1], ..., and how many of qs it accounts for.
RECURSIVE ClaimedColor(_, _, _, _)
ClaimedColor(qs, k, r, depth) ==
    IF depth <= 0 THEN [color |-> <<0, 0, 0>>, used |-> k - 1]
    ELSE IF k > Len(qs) THEN Malformed
    ELSE LET q == qs[k]
         IN IF q.r # r \/ q.tmin # 1 \/ q.tmax # Infinity THEN Malformed
            ELSE IF ~q.hit
            THEN [color |-> Background(r), used |-> k]
            ELSE IF q.scatter = "absorbed"
            THEN [color |-> <<0, 0, 0>>, used |-> k]
            ELSE IF q.scatter = "scattered"
            THEN LET inner == ClaimedColor(qs, k + 1, q.scattered, depth - 1)
                 IN [color |-> <<(q.attenuation[1] * inner.color[1]) \div Milli,
                                 (q.attenuation[2] * inner.color[2]) \div Milli,
                                 (q.attenuation[3] * inner.color[3]) \div Milli>>,
                     used |-> inner.used]
            ELSE Malformed

\* C5: ray_color returns black when depth <= 0, without asking the world;
\* else, when world.hit with tmin 0.001 succeeds and scatter succeeds, the
\* component-wise product of the attenuation and ray_color(scattered, world,
\* depth - 1); black when the hit succeeds and scatter fails; the background
\* gradient only when nothing is hit.
C5_FourResults ==
    (pc = "call" /\ stack = <<>>) =>
        LET claimed == ClaimedColor(queries, 1, arg.r, arg.depth)
        IN /\ claimed.used = Len(queries)
           /\ ret = claimed.color

\* A call that scattered twice and then left the scene.
C5_Witness ==
    /\ pc = "call"
    /\ stack = <<>>
    /\ Len(queries) = 3
    /\ queries[1].scatter = "scattered"
    /\ queries[2].scatter = "scattered"
    /\ ~queries[3].hit
    /\ ret # <<0, 0, 0>>

----------------------------------------------------------------------------
(* Claims about main, under Spec *)

\* The stream main writes to.
Sink == IF write_ppm THEN outfile ELSE cout

\* The stream main leaves alone.
OtherSink == IF write_ppm THEN cout ELSE outfile

IsPixel(x) == x.kind = "pixel"

\* The pixels emitted so far, in order.
Emitted == SelectSeq(Sink, IsPixel)

\* C1: pixels are emitted in scanline order, row H-1 first and row 0 last,
\* each row from column 0 to column W-1: the k-th emitted pixel (from 0) is
\* the one at row H-1-(k div W), column k mod W, and no pixel of a lower
\* row comes before a pixel of a higher row.
C1_ScanlineOrder ==
    /\ \A k \in 1..Len(Emitted) :
         /\ Emitted[k].row = image_height - 1 - ((k - 1) \div image_width)
         /\ Emitted[k].col = (k - 1) % image_width
    /\ \A a, b \in 1..Len(Emitted) : a < b => Emitted[a].row >= Emitted[b].row

\* A finished image of several rows and several columns.
C1_Witness ==
    /\ pc = "done"
    /\ image_height >= 2
    /\ image_width >= 2
    /\ Len(Emitted) = image_width * image_height

\* C2: a complete run writes the header P3 / W H / 255 once and before any
\* pixel, then exactly W*H pixels, each position once, all to one sink: the
\* file when write_ppm, standard output otherwise.
C2_HeaderThenPixels ==
    /\ OtherSink = <<>>
    /\ \A k \in 1..Len(Sink) : (Sink[k].kind = "header") = (k = 1)
    /\ pc # "header" =>
         /\ Len(Sink) >= 1
         /\ Sink[1] = [kind |-> "header", magic |-> "P3",
                       width |-> image_width, height |-> image_height,
                       maxval |-> 255]
    /\ pc = "done" =>
         /\ Len(Sink) = 1 + image_width * image_height
         /\ \A row \in 0..(image_height - 1), col \in 0..(image_width - 1) :
              Cardinality({k \in 2..Len(Sink) :
                             Sink[k].row = row /\ Sink[k].col = col}) = 1

\* A finished image of four pixels or more on standard output.
C2_Witness ==
    /\ pc = "done"
    /\ ~write_ppm
    /\ image_width * image_height >= 4
    /\ Len(cout) = 1 + image_width * image_height

InUnitInterval(f) == f.den > 0 /\ 0 <= f.num /\ f.num <= f.den

\* C7: every (s, t) handed to camera.get_ray lies in [0, 1] x [0, 1]: for
\* every column i, row j and jitter in [0, 1), (i + jitter)/(W-1) and
\* (j + jitter)/(H-1) are at least 0 and at most 1.  Stated for the images
\* of two rows and two columns or more, where neither divisor is 0.
C7_InUnitSquare ==
    (pc = "ray_color" /\ image_width >= 2 /\ image_height >= 2) =>
        InUnitInterval(arg.u) /\ InUnitInterval(arg.v)

\* C8 as claimed: the image height of the header and of the row loop is
\* width / aspect_ratio rounded to the nearest integer.
C8_HeightRounded ==
    LET rounded == (2 * image_width * aspect_ratio.den + aspect_ratio.num)
                       \div (2 * aspect_ratio.num)
    IN /\ \A k \in 1..Len(Sink) :
            Sink[k].kind = "header" => Sink[k].height = rounded
       /\ pc = "done" => Len(cerr) = rounded

\* C8, amended: the image height of the header and of the row loop is
\* width / aspect_ratio truncated to an integer (rounded down).
C8_HeightTruncated ==
    /\ image_height * aspect_ratio.num <= image_width * aspect_ratio.den
    /\ image_width * aspect_ratio.den < (image_height + 1) * aspect_ratio.num
    /\ \A k \in 1..Len(Sink) :
         Sink[k].kind = "header" => Sink[k].height = image_height
    /\ pc = "done" => Len(cerr) = image_height
    /\ Len(cerr) <= image_height

\* A finished image whose quotient has a fraction of a half or more, and
\* at least one row.
C8_Witness ==
    /\ pc = "done"
    /\ image_height >= 1
    /\ 2 * ((image_width * aspect_ratio.den) % aspect_ratio.num)
           >= aspect_ratio.num
    /\ Len(cerr) = image_height

RECURSIVE SumColors(_)
SumColors(seq) ==
    IF seq = <<>> THEN <<0, 0, 0>>
    ELSE LET rest == SumColors(Tail(seq))
         IN <<Head(seq).color[1] + rest[1], Head(seq).color[2] + rest[2],
              Head(seq).color[3] + rest[3]>>

\* C9: every pixel starts from a zero accumulator, adds exactly
\* samples_per_pixel ray_color results of its own (i, j) at depth max_depth,
\* and is then written once with that count as divisor; no sample goes to
\* another pixel and no pixel is written before its samples are in.
C9_SamplesPerPixel ==
    [][/\ (pc = "col" /\ pc' = "sample") =>
             pixel_color' = <<0, 0, 0>> /\ samples' = <<>>
       /\ (pc = "ray_color" /\ pc' = "sample") =>
             /\ arg.depth = max_depth
             /\ arg.u.num \div Milli = i
             /\ arg.v.num \div Milli = j
             /\ Len(samples') = Len(samples) + 1
       /\ (pc = "sample" /\ pc' = "col") =>
             /\ Len(samples) = samples_per_pixel
             /\ \A k \in 1..Len(samples) :
                  /\ samples[k].col = i
                  /\ samples[k].row = j
                  /\ samples[k].depth = max_depth
             /\ pixel_color = SumColors(samples)
             /\ Sink' = Append(Sink, [kind |-> "pixel", row |-> j, col |-> i,
                                      divisor |-> samples_per_pixel])
             /\ \A k \in 2..Len(Sink) :
                  ~(Sink[k].row = j /\ Sink[k].col = i)]_vars

\* The second pixel of a row has been written from two samples that were
\* not both black.
C9_Witness ==
    /\ pc = "col"
    /\ i = 2
    /\ samples_per_pixel = 2
    /\ Len(samples) = 2
    /\ pixel_color # <<0, 0, 0>>
    /\ Len(Emitted) >= 2

====
